---------------------------- MODULE Spec2Model ----------------------------
(***************************************************************************)
(* Model of streamlitunitedapp.py: the fixture parser                      *)
(* (parse_espn_fixtures_page), the ClubElo name resolver (normalize,       *)
(* find_clubelo_href), the rating fetcher (get_elo_for_team) and the       *)
(* outcome model (elo_expected, probability_from_elos).                    *)
(*                                                                         *)
(* Strings are sequences of one-character strings, page lines are          *)
(* sequences of words.  Floating-point probabilities are fixed-point       *)
(* integers in units of 1/Scale.                                           *)
(***************************************************************************)
EXTENDS Integers, Sequences, FiniteSets, TLC

VARIABLES
    elo_a, elo_b, man_is_home, probs, prev, opc,   \* probability_from_elos
    lines, limit, out, ppc,                     \* parse_espn_fixtures_page
    index, team_name, resolved, rpc,            \* find_clubelo_href
    fteam, default, href, html, ret, exc, fetches, fpc   \* get_elo_for_team

outcomeVars  == <<elo_a, elo_b, man_is_home, probs, prev, opc>>
parserVars   == <<lines, limit, out, ppc>>
resolverVars == <<index, team_name, resolved, rpc>>
fetchVars    == <<fteam, default, href, html, ret, exc, fetches, fpc>>
vars == <<outcomeVars, parserVars, resolverVars, fetchVars>>

\* Python's None.
None == "None"

\* The components a specification does not exercise stay in these states.
OutcomeIdle ==
    /\ elo_a = 0 /\ elo_b = 0 /\ man_is_home = FALSE
    /\ probs = <<>> /\ prev = <<>> /\ opc = "idle"
ParserIdle ==
    /\ lines = <<>> /\ limit = 0 /\ out = <<>> /\ ppc = "idle"
ResolverIdle ==
    /\ index = <<>> /\ team_name = <<>> /\ resolved = <<None, None>>
    /\ rpc = "idle"
FetchIdle ==
    /\ fteam = <<>> /\ default = 0 /\ href = None /\ html = <<>>
    /\ ret = None /\ exc = "none" /\ fetches = 0 /\ fpc = "idle"

Abs(x) == IF x < 0 THEN 0 - x ELSE x
Max(x, y) == IF x >= y THEN x ELSE y
Min(x, y) == IF x <= y THEN x ELSE y

(***************************************************************************)
(* Outcome model: elo_expected and probability_from_elos.                  *)
(***************************************************************************)

\* One probability unit is 1/Scale; a float p is the integer p * Scale.
Scale == 10 ^ 4
\* The tolerance 1e-6 is 1/TolDen, that is Scale \div TolDen units.
TolDen == 10 ^ 6

\* Ratings are drawn from a grid of RatingStep points, so that the exponent
\* (b - a) / 400.0 is a multiple of 1/16.
RatingStep == 400 \div 16
MinRating == 48 * RatingStep
RatingSteps == 32
Ratings == { MinRating + RatingStep * k : k \in 0..RatingSteps }

\* 10 ** (r / 16) for r = 0..15, rounded to the nearest unit of 1/Scale.
Pow10Sixteenths ==
    << 10000, 11548, 13335, 15399, 17783, 20535, 23714, 27384,
       31623, 36517, 42170, 48697, 56234, 64938, 74989, 86596 >>

\* Floor division and its remainder for a positive divisor.
FloorDiv(x, n) == IF x >= 0 THEN x \div n ELSE 0 - ((0 - x + n - 1) \div n)
FloorMod(x, n) == x - n * FloorDiv(x, n)

\* 10 ** (d / 400.0), in units of 1/Scale, for d a multiple of RatingStep.
Pow10(d) ==
    LET j == d \div RatingStep
        q == FloorDiv(j, 16)
        r == FloorMod(j, 16)
        m == Pow10Sixteenths[r + 1]
    IN  IF q >= 0 THEN m * (10 ^ q) ELSE m \div (10 ^ (0 - q))

\* The mutated expected score: the two ratings are exchanged.
elo_expectedSwapped(a, b) == (Scale * Scale) \div (Scale + Pow10(a - b))

\* elo_expected(a, b) = 1.0 / (1.0 + 10 ** ((b - a) / 400.0))
elo_expected(a, b) == (Scale * Scale) \div (Scale + Pow10(b - a))

HOME_ADV == 100
\* p_draw_base = 0.23
p_draw_base == (23 * Scale) \div 100
\* the floor 0.10 of max(0.10, ...)
DrawFloor == (10 * Scale) \div 100
\* the divisor of gap / 2000.0
GapDivisor == 2000

\* The mutated draw heuristic: the floor of max(0.10, ...) is lost.
DrawProbNoFloor(gap) == p_draw_base - ((gap * Scale) \div GapDivisor)

\* draw_prob = max(0.10, p_draw_base - (gap / 2000.0))
DrawProb(gap) == Max(DrawFloor, p_draw_base - ((gap * Scale) \div GapDivisor))

\* if abs(rem) > 1e-6: p_loss += rem
CorrectLoss(p_loss, rem) ==
    IF Abs(rem) > Scale \div TolDen THEN p_loss + rem ELSE p_loss

\* The mutated split: the share is taken of the whole mass, not of (1 - draw).
WinShareOfAll(draw_prob, p_expected) == p_expected

\* p_win = (1 - draw_prob) * p_expected
WinShare(draw_prob, p_expected) ==
    ((Scale - draw_prob) * p_expected) \div Scale

\* if man_is_home: ra += HOME_ADV else: rb += HOME_ADV
Adjusted(a, b, home) ==
    IF home THEN <<a + HOME_ADV, b>> ELSE <<a, b + HOME_ADV>>

\* probability_from_elos(elo_a, elo_b, man_is_home) = <<p_win, draw_prob, p_loss>>
probability_from_elos(a, b, home) ==
    LET ra == Adjusted(a, b, home)[1]
        rb == Adjusted(a, b, home)[2]
        gap == Abs(ra - rb)
        draw_prob == DrawProb(gap)
        p_expected == elo_expected(ra, rb)
        p_win == WinShare(draw_prob, p_expected)
        p_loss == WinShare(draw_prob, Scale - p_expected)
        rem == Scale - (p_win + draw_prob + p_loss)
    IN  << p_win, draw_prob, CorrectLoss(p_loss, rem) >>

\* The ratings and the venue of one fixture row, before the call.
InitOutcome ==
    /\ elo_a \in Ratings
    /\ elo_b \in Ratings
    /\ man_is_home \in BOOLEAN
    /\ probs = <<>>
    /\ prev = <<>>
    /\ opc = "input"
    /\ ParserIdle /\ ResolverIdle /\ FetchIdle

\* p_win, p_draw, p_loss = probability_from_elos(man_elo, opp_elo, home)
ComputeOutcome ==
    /\ opc = "input"
    /\ probs' = probability_from_elos(elo_a, elo_b, man_is_home)
    /\ opc' = "done"
    /\ UNCHANGED <<elo_a, elo_b, man_is_home, prev>>
    /\ UNCHANGED <<parserVars, resolverVars, fetchVars>>

\* The same fixture computed again with another rating of the first team;
\* prev keeps the rating and the row of the earlier call.
RerateOutcome ==
    /\ opc = "done"
    /\ \E a \in Ratings :
          /\ a # elo_a
          /\ elo_a' = a
          /\ probs' = probability_from_elos(a, elo_b, man_is_home)
    /\ prev' = <<elo_a, probs>>
    /\ opc' = "rerated"
    /\ UNCHANGED <<elo_b, man_is_home>>
    /\ UNCHANGED <<parserVars, resolverVars, fetchVars>>

NextOutcome == ComputeOutcome \/ RerateOutcome

SpecOutcome == InitOutcome /\ [][NextOutcome]_vars

OutcomeDone == opc \in {"done", "rerated"}

\* C3 as stated: outcome(1700, 1500, home) has draw = 0.08, p_win about 0.781
\* and p_loss about 0.139 (each to three decimals).
C3_LiteralAsClaimed ==
    (OutcomeDone /\ elo_a = 1700 /\ elo_b = 1500 /\ man_is_home) =>
        /\ probs[2] = (8 * Scale) \div 100
        /\ Abs(probs[1] - (781 * Scale) \div 1000) * 1000 <= Scale
        /\ Abs(probs[3] - (139 * Scale) \div 1000) * 1000 <= Scale

\* C3 amended: outcome(1700, 1500, home) works on the adjusted ratings 1800 and
\* 1500 (expected score about 0.849); 0.23 - 300/2000 = 0.08 lies below the
\* floor, so draw = 0.10, p_win is about 0.90 * 0.849 = 0.764 and p_loss about
\* 0.136 (each to three decimals).
C3_LiteralFloored ==
    (OutcomeDone /\ elo_a = 1700 /\ elo_b = 1500 /\ man_is_home) =>
        /\ Adjusted(elo_a, elo_b, man_is_home) = <<1800, 1500>>
        /\ probs[2] = (10 * Scale) \div 100
        /\ Abs(probs[1] - (764 * Scale) \div 1000) * 1000 <= Scale
        /\ Abs(probs[3] - (136 * Scale) \div 1000) * 1000 <= Scale

C3_Witness ==
    /\ opc = "done" /\ elo_a = 1700 /\ elo_b = 1500 /\ man_is_home
    /\ probs[2] = DrawFloor

\* C6: the three returned probabilities sum to 1.0 within 1e-6 and each lies
\* in [0, 1], for all ratings and both venues.
C6_SumAndRange ==
    OutcomeDone =>
        /\ Abs(probs[1] + probs[2] + probs[3] - Scale) <= Scale \div TolDen
        /\ \A k \in 1..3 : 0 <= probs[k] /\ probs[k] <= Scale

\* A row whose raw shares did not add up to 1, so the correction of p_loss acted.
C6_Witness ==
    /\ opc = "done"
    /\ LET ra == Adjusted(elo_a, elo_b, man_is_home)[1]
           rb == Adjusted(elo_a, elo_b, man_is_home)[2]
           d == DrawProb(Abs(ra - rb))
       IN  /\ WinShare(d, elo_expected(ra, rb)) + d
                + WinShare(d, Scale - elo_expected(ra, rb)) # Scale
           /\ probs[1] + probs[2] + probs[3] = Scale

\* C9: with rating_b and the venue fixed, p_win does not decrease when rating_a
\* increases.
C9_WinMonotone ==
    (opc = "rerated" /\ prev[1] <= elo_a) => prev[2][1] <= probs[1]

\* rating_a was raised below the opponent's adjusted rating: the gap shrank,
\* the draw probability rose, and p_win rose all the same.
C9_Witness ==
    /\ opc = "rerated"
    /\ prev[1] < elo_a
    /\ Adjusted(elo_a, elo_b, man_is_home)[1] < Adjusted(elo_a, elo_b, man_is_home)[2]
    /\ prev[2][2] < probs[2]
    /\ prev[2][1] < probs[1]

(***************************************************************************)
(* Fixture parser: parse_espn_fixtures_page.  A line is the sequence of    *)
(* its whitespace-separated words; the empty string is the empty sequence. *)
(***************************************************************************)

MaxLines == 5
MaxLimit == 2

\* The lines a fixtures page is made of.
DateLine    == <<"Sun,", "Aug", "24">>
ManUtdLine  == <<"Manchester", "United">>
VersusLine  == <<"v">>
LeedsLine   == <<"Leeds", "United">>
KickoffLine == <<"11:30", "AM", "English", "Premier", "League">>
PageLines == {DateLine, ManUtdLine, VersusLine, LeedsLine, KickoffLine}

\* Pages: the non-empty stripped lines of soup.get_text("\n").
Pages == UNION { [1..n -> PageLines] : n \in 0..MaxLines }

\* The words of the pages by the regular-expression classes they belong to.
LettersComma3to9 == {"Sun,"}                  \* [A-Za-z]{3,9},
Letters3to9 == {"Aug", "United", "Leeds", "English", "Premier", "League"}
Digits1to2 == {"24"}                          \* \d{1,2}
ClockWords == {"11:30"}                       \* \d{1,2}:\d{2}
MeridiemWords == {"AM", "PM", "am", "pm"}     \* (AM|PM), re.I

\* date_re.match(ln): ^[A-Za-z]{3,9},\s+[A-Za-z]{3,9}\s+\d{1,2}$
date_re(ln) ==
    /\ Len(ln) = 3
    /\ ln[1] \in LettersComma3to9
    /\ ln[2] \in Letters3to9
    /\ ln[3] \in Digits1to2

\* The position of the first match of time_re in line t, 0 when there is none.
time_re(t) ==
    LET hits == { k \in 1..(Len(t) - 1) :
                     t[k] \in ClockWords /\ t[k + 1] \in MeridiemWords }
    IN  IF hits = {} THEN 0 ELSE CHOOSE k \in hits : \A h \in hits : k <= h

\* Whether the words w occur in line t at position k.
OccursAt(w, t, k) ==
    /\ k + Len(w) - 1 <= Len(t)
    /\ \A m \in 1..Len(w) : t[k + m - 1] = w[m]

\* sub in t, for a non-empty sub
Contains(t, sub) == \E k \in 1..Len(t) : OccursAt(sub, t, k)

\* t.replace(w, "").strip(): every occurrence of w is cut out, left to right.
RECURSIVE Replace(_, _)
Replace(t, w) ==
    IF t = <<>> THEN <<>>
    ELSE IF OccursAt(w, t, 1) THEN Replace(SubSeq(t, Len(w) + 1, Len(t)), w)
    ELSE <<Head(t)>> \o Replace(Tail(t), w)

\* ln == 'v' or ln == 'vs' or ln == 'V'
IsVersus(ln) == ln = <<"v">> \/ ln = <<"vs">> \/ ln = <<"V">>

\* 'Manchester United' in team or 'Man Utd' in team or 'ManUnited' in team
IsManUtd(team) ==
    \/ Contains(team, <<"Manchester", "United">>)
    \/ Contains(team, <<"Man", "Utd">>)
    \/ Contains(team, <<"ManUnited">>)

\* The up to three lines after team B; i is the zero-based place of the 'v'.
TailLines(ls, i) ==
    LET j == i + 2
    IN  [ k \in 1..Max(0, Min(3, Len(ls) - j)) |-> ls[j + k] ]

\* <<time_text, comp_text>> of the first line of the tail that holds a time.
RECURSIVE TimeAndCompetition(_)
TimeAndCompetition(tail) ==
    IF tail = <<>> THEN << <<>>, <<>> >>
    ELSE LET t == Head(tail)
             k == time_re(t)
         IN  IF k # 0
             THEN LET time_text == SubSeq(t, k, k + 1)
                  IN  << time_text, Replace(t, time_text) >>
             ELSE TimeAndCompetition(Tail(tail))

\* The record of the match block around the 'v' at zero-based place i, as a
\* sequence of at most one fixture.
MatchBlock(ls, i, current_date) ==
    LET team_a == ls[i]
        team_b == ls[i + 2]
        tc == TimeAndCompetition(TailLines(ls, i))
        date_text == IF current_date = None THEN <<>> ELSE current_date
        fixture(opponent, home) ==
            [ date_text |-> date_text, time_text |-> tc[1],
              competition |-> tc[2], opponent |-> opponent, home |-> home ]
    IN  IF IsManUtd(team_a) THEN << fixture(team_b, TRUE) >>
        ELSE IF IsManUtd(team_b) THEN << fixture(team_a, FALSE) >>
        ELSE <<>>

\* The while loop over the lines, from zero-based place i.
RECURSIVE Scan(_, _, _, _)
Scan(ls, i, current_date, fixtures) ==
    IF ~(i < Len(ls)) THEN fixtures
    ELSE LET ln == ls[i + 1]
         IN  IF date_re(ln) THEN Scan(ls, i + 1, ln, fixtures)
             ELSE IF IsVersus(ln) /\ i - 1 >= 0 /\ i + 1 < Len(ls)
                  THEN Scan(ls, i + 1, current_date,
                            fixtures \o MatchBlock(ls, i, current_date))
             ELSE Scan(ls, i + 1, current_date, fixtures)

\* i = 1: the zero-based place where the scan starts.
ScanStart == 0 + 1

\* The fixtures list at the end of the while loop.
RawFixtures(ls) == Scan(ls, ScanStart, None, <<>>)

Key(f) == << f.date_text, f.opponent, f.home >>

\* for f in fixtures: keep f when its key is new; break at len(out) >= limit.
RECURSIVE Dedupe(_, _, _, _)
Dedupe(fixtures, seen, acc, lim) ==
    IF fixtures = <<>> THEN acc
    ELSE LET f == Head(fixtures)
             fresh == Key(f) \notin seen
             acc2 == IF fresh THEN Append(acc, f) ELSE acc
         IN  IF Len(acc2) >= lim THEN acc2
             ELSE Dedupe(Tail(fixtures), seen \cup {Key(f)}, acc2, lim)

\* parse_espn_fixtures_page(limit), on the lines of the fetched page.
parse_espn_fixtures_page(ls, lim) == Dedupe(RawFixtures(ls), {}, <<>>, lim)

InitParser ==
    /\ lines \in Pages
    /\ limit \in 0..MaxLimit
    /\ out = <<>>
    /\ ppc = "input"
    /\ OutcomeIdle /\ ResolverIdle /\ FetchIdle

ParseFixtures ==
    /\ ppc = "input"
    /\ out' = parse_espn_fixtures_page(lines, limit)
    /\ ppc' = "done"
    /\ UNCHANGED <<lines, limit>>
    /\ UNCHANGED <<outcomeVars, resolverVars, fetchVars>>

NextParser == ParseFixtures

SpecParser == InitParser /\ [][NextParser]_vars

\* C1: the page "Sun, Aug 24" / "Manchester United" / "v" / "Leeds United" /
\* "11:30 AM English Premier League" yields exactly one record, dated
\* "Sun, Aug 24", against Leeds United, at home, at 11:30 AM, in the English
\* Premier League.
C1_LiteralPage ==
    (/\ ppc = "done"
     /\ lines = <<DateLine, ManUtdLine, VersusLine, LeedsLine, KickoffLine>>
     /\ limit >= 1)
    => out = << [ date_text |-> <<"Sun,", "Aug", "24">>,
                  opponent |-> <<"Leeds", "United">>,
                  home |-> TRUE,
                  time_text |-> <<"11:30", "AM">>,
                  competition |-> <<"English", "Premier", "League">> ] >>

\* C4: for every page and every limit >= 0 at most limit records are returned.
C4_AtMostLimit == ppc = "done" => Len(out) <= limit

\* The first occurrences of the distinct keys of a list, in order.
RECURSIVE FirstOccurrences(_)
FirstOccurrences(fs) ==
    IF fs = <<>> THEN <<>>
    ELSE LET init == SubSeq(fs, 1, Len(fs) - 1)
             last == fs[Len(fs)]
         IN  IF \E k \in 1..Len(init) : Key(init[k]) = Key(last)
             THEN FirstOccurrences(init)
             ELSE Append(FirstOccurrences(init), last)

\* C8: no two returned records share a (date_text, opponent, home) triple, and
\* the returned records are the first occurrences of the distinct triples of
\* the scan, in scan order, truncated at limit.
C8_FirstOccurrences ==
    ppc = "done" =>
        /\ \A a, b \in 1..Len(out) : Key(out[a]) = Key(out[b]) => a = b
        /\ LET firsts == FirstOccurrences(RawFixtures(lines))
           IN  out = SubSeq(firsts, 1, Min(limit, Len(firsts)))

(***************************************************************************)
(* Name resolver: normalize, build_clubelo_index, find_clubelo_href.  A    *)
(* string is the sequence of its characters.                               *)
(***************************************************************************)

MaxAnchors == 2

UpperCase == <<"A", "B", "C", "D", "E", "F", "G", "H", "I", "J", "K", "L", "M",
               "N", "O", "P", "Q", "R", "S", "T", "U", "V", "W", "X", "Y", "Z">>
LowerCase == <<"a", "b", "c", "d", "e", "f", "g", "h", "i", "j", "k", "l", "m",
               "n", "o", "p", "q", "r", "s", "t", "u", "v", "w", "x", "y", "z">>

\* c.lower()
Lower(c) ==
    IF \E k \in 1..26 : UpperCase[k] = c
    THEN LowerCase[CHOOSE k \in 1..26 : UpperCase[k] = c]
    ELSE c

\* The class [a-z1-10]: the letters a to z, the range 1-1 and the digit 0.
KeptChars == { LowerCase[k] : k \in 1..26 } \cup {"1"} \cup {"0"}

\* Whether re.sub(r'[^a-z1-10]', '', ...) keeps the character c.
Kept(c) == c \in KeptChars

\* normalize(name) = re.sub(r'[^a-z1-10]', '', name.lower())
normalize(name) ==
    LET low == [ k \in 1..Len(name) |-> Lower(name[k]) ]
    IN  SelectSeq(low, Kept)

\* Python's x in y for strings.
In(x, y) ==
    \E k \in 0..(Len(y) - Len(x)) : \A m \in 1..Len(x) : y[k + m] = x[m]

\* The names on the ratings page and in the fixtures.
NameManUnited == <<"M", "a", "n", " ", "U", "n", "i", "t", "e", "d">>
NameManUtd == <<"M", "a", "n", " ", "U", "t", "d">>
NameManchesterUnited == <<"M", "a", "n", "c", "h", "e", "s", "t", "e", "r", " ", "U", "n", "i", "t", "e", "d">>
NameLeedsUnited == <<"L", "e", "e", "d", "s", " ", "U", "n", "i", "t", "e", "d">>
NameLeeds == <<"L", "e", "e", "d", "s">>
NameLens == <<"L", "e", "n", "s">>
NameLewes == <<"L", "e", "w", "e", "s">>
NameMainz05 == <<"M", "a", "i", "n", "z", " ", "0", "5">>
NameSymbols == <<"?", "?", "?">>
TeamNames == { NameManUnited, NameManUtd, NameManchesterUnited, NameLeedsUnited, NameLeeds,
               NameLens, NameLewes, NameMainz05, NameSymbols }

\* Anchor texts that are no clubs.
TextEmpty == <<>>
TextEN == <<"E", "N">>
AnchorTexts == TeamNames \cup {TextEmpty, TextEN}

\* An anchor <<text, href>> of the All page; a club's link is "/" and its name.
Anchor(text) == << text, <<"/">> \o text >>
AnchorLists == UNION { [1..n -> { Anchor(t) : t \in AnchorTexts }] : n \in 0..MaxAnchors }

\* len(href) < 60
MaxHrefLen == 60

\* if not text: continue; if href.startswith("/") and len(text) > 2 and
\* len(href) < 60: items.append((text, href, normalize(text)))
RECURSIVE ClubItems(_)
ClubItems(anchors) ==
    IF anchors = <<>> THEN <<>>
    ELSE LET text == Head(anchors)[1]
             h == Head(anchors)[2]
             rest == ClubItems(Tail(anchors))
         IN  IF /\ text # <<>>
                /\ h # <<>> /\ h[1] = "/"
                /\ Len(text) > 2
                /\ Len(h) < MaxHrefLen
             THEN << <<text, h, normalize(text)>> >> \o rest
             ELSE rest

\* remove duplicates: the first item of every normalized name is kept.
RECURSIVE Unique(_, _)
Unique(items, seen) ==
    IF items = <<>> THEN <<>>
    ELSE LET n == Head(items)[3]
         IN  IF n \notin seen
             THEN <<Head(items)>> \o Unique(Tail(items), seen \cup {n})
             ELSE Unique(Tail(items), seen)

\* build_clubelo_index(): the list of (display_name, href, normalized_name).
build_clubelo_index(anchors) == Unique(ClubItems(anchors), {})

\* The length of the common run of a[i:ahi] and b[j:bhi] (zero-based places).
RECURSIVE RunLen(_, _, _, _, _, _)
RunLen(a, b, i, j, ahi, bhi) ==
    IF i < ahi /\ j < bhi /\ a[i + 1] = b[j + 1]
    THEN 1 + RunLen(a, b, i + 1, j + 1, ahi, bhi)
    ELSE 0

SetMax(S) == CHOOSE x \in S : \A y \in S : y <= x
SetMin(S) == CHOOSE x \in S : \A y \in S : x <= y

\* SequenceMatcher.find_longest_match(alo, ahi, blo, bhi) without junk: the
\* longest common block <<i, j, k>>; of the longest, the one that starts
\* earliest in a, and of those the one that starts earliest in b.
find_longest_match(a, b, alo, ahi, blo, bhi) ==
    LET cands == (alo..(ahi - 1)) \X (blo..(bhi - 1))
        run == [ p \in cands |-> RunLen(a, b, p[1], p[2], ahi, bhi) ]
        k == IF cands = {} THEN 0 ELSE SetMax({ run[p] : p \in cands })
    IN  IF k = 0 THEN <<alo, blo, 0>>
        ELSE LET i == SetMin({ p[1] : p \in { q \in cands : run[q] = k } })
                 j == SetMin({ p[2] : p \in { q \in cands :
                                                 q[1] = i /\ run[q] = k } })
             IN  <<i, j, k>>

\* The total size of SequenceMatcher.get_matching_blocks() in a[alo:ahi] and
\* b[blo:bhi]: the longest block, then the same to its left and to its right.
RECURSIVE MatchedSize(_, _, _, _, _, _)
MatchedSize(a, b, alo, ahi, blo, bhi) ==
    LET m == find_longest_match(a, b, alo, ahi, blo, bhi)
        i == m[1]
        j == m[2]
        k == m[3]
    IN  IF k = 0 THEN 0
        ELSE k + (IF alo < i /\ blo < j
                  THEN MatchedSize(a, b, alo, i, blo, j) ELSE 0)
               + (IF i + k < ahi /\ j + k < bhi
                  THEN MatchedSize(a, b, i + k, ahi, j + k, bhi) ELSE 0)

\* SequenceMatcher(None, a, b).ratio() = 2.0 * matches / (len(a) + len(b)),
\* 1.0 for two empty strings; the fraction <<numerator, denominator>>.
Ratio(a, b) ==
    IF Len(a) + Len(b) = 0 THEN <<1, 1>>
    ELSE << 2 * MatchedSize(a, b, 0, Len(a), 0, Len(b)), Len(a) + Len(b) >>

\* The mutated comparison ratio >= best[2]: a tie goes to the later entry.
BetterOrEqual(ratio, best_ratio) ==
    ratio[1] * best_ratio[2] >= best_ratio[1] * ratio[2]

\* ratio > best[2]
Better(ratio, best_ratio) ==
    ratio[1] * best_ratio[2] > best_ratio[1] * ratio[2]

\* The threshold 0.65 as a fraction.
Threshold == <<65, 100>>

\* best[2] >= 0.65
Accepted(ratio) == ratio[1] * Threshold[2] >= Threshold[1] * ratio[2]

\* The mutated substring test: only target in norm is tried.
SubstringHitOneWay(target, norm) == In(target, norm)

\* target in norm or norm in target
SubstringHit(target, norm) == In(target, norm) \/ In(norm, target)

\* The for loop of find_clubelo_href from entry k on, and what follows it.
RECURSIVE ScanIndex(_, _, _, _)
ScanIndex(idx, k, target, best) ==
    IF k > Len(idx)
    THEN IF Accepted(best[3]) THEN <<best[1], best[2]>> ELSE <<None, None>>
    ELSE LET display == idx[k][1]
             h == idx[k][2]
             norm == idx[k][3]
             ratio == Ratio(norm, target)
         IN  IF norm = target THEN <<h, display>>
             ELSE IF SubstringHit(target, norm) THEN <<h, display>>
             ELSE IF Better(ratio, best[3])
                  THEN ScanIndex(idx, k + 1, target, <<h, display, ratio>>)
                  ELSE ScanIndex(idx, k + 1, target, best)

\* find_clubelo_href(team_name) on the index: (href, display_name) or
\* (None, None).
find_clubelo_href(idx, name) ==
    ScanIndex(idx, 1, normalize(name), <<None, None, <<0, 1>> >>)

InitResolver ==
    /\ \E anchors \in AnchorLists : index = build_clubelo_index(anchors)
    /\ team_name \in TeamNames
    /\ resolved = <<None, None>>
    /\ rpc = "input"
    /\ OutcomeIdle /\ ParserIdle /\ FetchIdle

Resolve ==
    /\ rpc = "input"
    /\ resolved' = find_clubelo_href(index, team_name)
    /\ rpc' = "done"
    /\ UNCHANGED <<index, team_name>>
    /\ UNCHANGED <<outcomeVars, parserVars, fetchVars>>

NextResolver == Resolve

SpecResolver == InitResolver /\ [][NextResolver]_vars

\* The entry of the index at place k as the resolver returns it.
Entry(k) == << index[k][2], index[k][1] >>
Target == normalize(team_name)
\* Entry k is an exact or a substring match of the query.
DirectMatch(k) ==
    \/ index[k][3] = Target
    \/ In(Target, index[k][3])
    \/ In(index[k][3], Target)
\* The similarity ratio of entry k, and whether it reaches 0.65.
RatioOf(k) == Ratio(index[k][3], Target)
Reaches065(k) == RatioOf(k)[1] * 100 >= 65 * RatioOf(k)[2]
RatioLess(k, m) == RatioOf(k)[1] * RatioOf(m)[2] < RatioOf(m)[1] * RatioOf(k)[2]

\* C2: when an entry's normalized name equals the normalized query, that entry
\* is returned, whatever else the index holds and in whatever order.
C2_ExactWins ==
    rpc = "done" =>
        \A k \in 1..Len(index) : index[k][3] = Target => resolved = Entry(k)

\* C5: when no entry is an exact or substring match, the result is the first
\* entry in index order that attains the maximum ratio if that maximum is at
\* least 0.65, and (None, None) otherwise.
C5_FuzzyAcceptance ==
    (rpc = "done" /\ \A k \in 1..Len(index) : ~DirectMatch(k)) =>
        IF \E k \in 1..Len(index) : Reaches065(k)
        THEN \E k \in 1..Len(index) :
                /\ \A m \in 1..Len(index) : ~RatioLess(k, m)
                /\ \A m \in 1..(k - 1) : RatioLess(m, k)
                /\ resolved = Entry(k)
        ELSE resolved = <<None, None>>

\* Two entries tie at a ratio of at least 0.65 and the earlier one is returned.
C5_Witness ==
    /\ rpc = "done"
    /\ Len(index) = 2
    /\ \A k \in 1..2 : ~DirectMatch(k)
    /\ ~RatioLess(1, 2) /\ ~RatioLess(2, 1)
    /\ Reaches065(1)
    /\ resolved = Entry(1)

\* C10: (None, None) is returned only when no entry is an exact match, a
\* substring match in either direction or a match of ratio >= 0.65; a query
\* that normalizes to the empty string gets the first entry of a non-empty
\* index, and an entry that normalizes to the empty string is returned for
\* every query whose scan reaches it.
C10_AbsentOnlyWithoutMatch ==
    rpc = "done" =>
        /\ resolved = <<None, None>> =>
              \A k \in 1..Len(index) : ~DirectMatch(k) /\ ~Reaches065(k)
        /\ (Target = <<>> /\ index # <<>>) => resolved = Entry(1)
        /\ \A k \in 1..Len(index) :
              (/\ index[k][3] = <<>>
               /\ \A m \in 1..(k - 1) : ~DirectMatch(m))
              => resolved = Entry(k)

\* A query with a name scanned past a first entry and answered by a second
\* entry whose normalized name is empty.
C10_Witness ==
    /\ rpc = "done"
    /\ Len(index) = 2
    /\ Target # <<>>
    /\ ~DirectMatch(1)
    /\ index[2][3] = <<>>
    /\ resolved = Entry(2)

(***************************************************************************)
(* Rating fetcher: get_elo_for_team.  A detail page is the sequence of its *)
(* "Elo" labels; each label has the characters that follow it and its      *)
(* separators, and may have markup between the separators and them.        *)
(***************************************************************************)

MaxLabels == 2

\* The ratings the caller passes as default.
Defaults == {1500, 1700}

\* What follows a label on a detail page.
Run1850  == <<"1", "8", "5", "0">>
Run1011  == <<"1", "0", "1", "1">>
Run10110 == <<"1", "0", "1", "1", "0">>
Run10    == <<"1", "0">>
Runs == {Run1850, Run1011, Run10110, Run10}
Labels == [ tagged : BOOLEAN, run : Runs ]
DetailPages == UNION { [1..n -> Labels] : n \in 0..MaxLabels }

\* The exceptions of the calls inside the try block.
Exceptions == {"ConnectionError", "HTTPError", "ParserError"}

\* The class [1-10] of the rating pattern: the range 1-1 and the digit 0.
RatingChars == {"1"} \cup {"0"}

\* The group ([1-10]{3,4}) at the head of a run: the longest prefix of three
\* or four characters of the class, <<>> when there are fewer than three.
RatingGroup(run) ==
    LET n == Min(4, Len(run))
        lens == { k \in 0..n : \A m \in 1..k : run[m] \in RatingChars }
        k == SetMax(lens)
    IN  IF k >= 3 THEN SubSeq(run, 1, k) ELSE <<>>

DigitValue(c) == IF c = "1" THEN 1 ELSE 0

\* int(m.group(1))
RECURSIVE IntOf(_)
IntOf(digits) ==
    IF digits = <<>> THEN 0
    ELSE 10 * IntOf(SubSeq(digits, 1, Len(digits) - 1))
           + DigitValue(digits[Len(digits)])

\* re.search(r'Elo[:\s]*([1-10]{3,4})', html) on the raw markup: the group of
\* the first label that the pattern matches, <<>> when it matches none.  Markup
\* after the separators stops the pattern at that label.
RECURSIVE SearchMarkup(_)
SearchMarkup(page) ==
    IF page = <<>> THEN <<>>
    ELSE IF ~Head(page).tagged /\ RatingGroup(Head(page).run) # <<>>
         THEN RatingGroup(Head(page).run)
         ELSE SearchMarkup(Tail(page))

\* BeautifulSoup(html, "html.parser").get_text(" "): the markup is gone and
\* the text around it is joined by blanks, which the separators absorb.
get_text(page) == [ k \in 1..Len(page) |-> [ tagged |-> FALSE, run |-> page[k].run ] ]

\* The mutated handler "except ValueError": other exceptions pass through.
CatchesValueError(e) == e = "ValueError"

\* except Exception: every exception of the try block is caught.
Catches(e) == e \in Exceptions \cup {"ValueError"}

InitFetch ==
    /\ fteam \in TeamNames
    /\ default \in Defaults
    /\ href = None
    /\ html = <<>>
    /\ ret = None
    /\ exc = "none"
    /\ fetches = 0
    /\ fpc = "start"
    /\ OutcomeIdle /\ ParserIdle /\ ResolverIdle

\* href, display = find_clubelo_href(team_name), whose build_clubelo_index()
\* fetches the All page: the fetch fails and raises.
ResolveRaises ==
    /\ fpc = "start"
    /\ exc' = "ConnectionError"
    /\ fpc' = "except"
    /\ UNCHANGED <<fteam, default, href, html, ret, fetches>>
    /\ UNCHANGED <<outcomeVars, parserVars, resolverVars>>

\* href, display = find_clubelo_href(team_name); if not href: return default
ResolveTeam ==
    /\ fpc = "start"
    /\ \E anchors \in AnchorLists :
          LET r == find_clubelo_href(build_clubelo_index(anchors), fteam)
          IN  IF r[1] = None \/ r[1] = <<>>
              THEN /\ ret' = default
                   /\ fpc' = "done"
                   /\ href' = href
              ELSE /\ href' = r[1]
                   /\ fpc' = "fetch"
                   /\ ret' = ret
    /\ UNCHANGED <<fteam, default, html, exc, fetches>>
    /\ UNCHANGED <<outcomeVars, parserVars, resolverVars>>

\* html = fetch_page_text(CLUBELO_BASE + href): the request fails and raises.
FetchRaises ==
    /\ fpc = "fetch"
    /\ fetches' = fetches + 1
    /\ exc' = "HTTPError"
    /\ fpc' = "except"
    /\ UNCHANGED <<fteam, default, href, html, ret>>
    /\ UNCHANGED <<outcomeVars, parserVars, resolverVars>>

\* html = fetch_page_text(CLUBELO_BASE + href)
FetchDetail ==
    /\ fpc = "fetch"
    /\ fetches' = fetches + 1
    /\ html' \in DetailPages
    /\ fpc' = "markup"
    /\ UNCHANGED <<fteam, default, href, ret, exc>>
    /\ UNCHANGED <<outcomeVars, parserVars, resolverVars>>

\* m = re.search(..., html); if m: return int(m.group(1))
MatchMarkup ==
    /\ fpc = "markup"
    /\ LET m == SearchMarkup(html)
       IN  IF m # <<>>
           THEN ret' = IntOf(m) /\ fpc' = "done"
           ELSE ret' = ret /\ fpc' = "text"
    /\ UNCHANGED <<fteam, default, href, html, exc, fetches>>
    /\ UNCHANGED <<outcomeVars, parserVars, resolverVars>>

\* text = BeautifulSoup(html, "html.parser").get_text(" "): the parser raises.
TextRaises ==
    /\ fpc = "text"
    /\ exc' = "ParserError"
    /\ fpc' = "except"
    /\ UNCHANGED <<fteam, default, href, html, ret, fetches>>
    /\ UNCHANGED <<outcomeVars, parserVars, resolverVars>>

\* m2 = re.search(..., text); if m2: return int(m2.group(1)); return default
MatchText ==
    /\ fpc = "text"
    /\ LET m2 == SearchMarkup(get_text(html))
       IN  ret' = IF m2 # <<>> THEN IntOf(m2) ELSE default
    /\ fpc' = "done"
    /\ UNCHANGED <<fteam, default, href, html, exc, fetches>>
    /\ UNCHANGED <<outcomeVars, parserVars, resolverVars>>

\* except Exception: pass, then return default; an exception the handler does
\* not catch leaves the function.
ExceptHandler ==
    /\ fpc = "except"
    /\ IF Catches(exc)
       THEN ret' = default /\ fpc' = "done"
       ELSE ret' = ret /\ fpc' = "raised"
    /\ UNCHANGED <<fteam, default, href, html, exc, fetches>>
    /\ UNCHANGED <<outcomeVars, parserVars, resolverVars>>

NextFetch ==
    \/ ResolveRaises
    \/ ResolveTeam
    \/ FetchRaises
    \/ FetchDetail
    \/ MatchMarkup
    \/ TextRaises
    \/ MatchText
    \/ ExceptHandler

SpecFetch == InitFetch /\ [][NextFetch]_vars

\* The rating pattern matches the raw markup or the extracted text.
PatternFound == SearchMarkup(html) # <<>> \/ SearchMarkup(get_text(html)) # <<>>

\* C7: get_elo_for_team never raises and returns an integer; when the name does
\* not resolve it returns default without fetching a detail page; when the
\* fetch fails, or the pattern matches neither the markup nor the text, it
\* returns default.
C7_NeverRaises ==
    /\ fpc # "raised"
    /\ fpc = "done" =>
          /\ ret \in Int
          /\ href = None => (ret = default /\ fetches = 0)
          /\ exc # "none" => ret = default
          /\ (fetches = 1 /\ exc = "none" /\ ~PatternFound) => ret = default

\* The detail page was asked for, the request raised, and default came back.
C7_Witness ==
    /\ fpc = "done"
    /\ href # None
    /\ fetches = 1
    /\ exc = "HTTPError"
    /\ ret = default

=============================================================================
